---- MODULE Spec2Model ----
(***************************************************************************)
(* Model of pysal/contrib/spint/gravity.py: the Wilsonian family of        *)
(* gravity-type spatial interaction models (BaseGravity, Gravity,          *)
(* Production, Attraction, Doubly) and their local() recalibration.        *)
(*                                                                         *)
(* Representation.                                                         *)
(*  - An n x 1 array is a sequence of n values; an optional argument or an *)
(*    attribute that may be unset is a sequence of length 0 or 1.          *)
(*  - A matrix is the sequence of its columns (hstack is \o, X[:,1:] is    *)
(*    Tail).  Matrix entries are floats, kept in fixed point (Scale units  *)
(*    per 1.0); np.log(0) is NegInf and np.log of a negative number NaN.   *)
(*  - Location identifiers are written as naturals: the rank of the label  *)
(*    in the sort order np.unique uses.                                    *)
(*  - A constructor is an operator from its arguments (and the outcome of  *)
(*    the external fitter) to the instance it leaves behind; field exc is  *)
(*    the exception __init__ raised ("None" when it returned).             *)
(***************************************************************************)
EXTENDS Integers, Sequences, FiniteSets, TLC

VARIABLES model, call, localRes

vars == <<model, call, localRes>>

-----------------------------------------------------------------------------
(* Bounds of the model *)

\* largest number of observations of a dataset
MaxN == 2
\* longest explicit list / array of location keys handed to local()
MaxLocs == 2

\* fixed-point unit of a float: x*1.0 is Scale*x
Scale == 100
\* np.log(0) = -inf and np.log(x<0) = nan
NegInf == -100000
NaN == 100000

FlowVals == {1, 2}
CostVals == {1, 2}
CovVals == {-1, 0, 2}
Ids == {1, 2}

-----------------------------------------------------------------------------
(* numpy helpers *)

\* np.log on one number (natural log, fixed point)
ln(x) ==
    IF x < 0 THEN NaN
    ELSE IF x = 0 THEN NegInf
    ELSE CASE x = 1 -> 0
           [] x = 2 -> 69
           [] x = 3 -> 110
           [] x = 4 -> 139
           [] OTHER -> 161

\* np.log applied elementwise to a column
np_log(v) == [i \in 1..Len(v) |-> ln(v[i])]

RECURSIVE SortedSeq(_)
SortedSeq(S) ==
    IF S = {} THEN <<>>
    ELSE LET mn == CHOOSE x \in S : \A y \in S : x <= y
         IN  <<mn>> \o SortedSeq(S \ {mn})

\* Mutant: the values as given, neither sorted nor deduplicated
np_unique_raw(v) == v

\* np.unique: the sorted distinct values of an array or list
np_unique(v) == SortedSeq({v[i] : i \in 1..Len(v)})

RECURSIVE Masked(_, _, _)
\* a[subset] for a boolean mask: the entries of a whose row is in the mask
Masked(a, mask, i) ==
    IF i > Len(a) THEN <<>>
    ELSE (IF i \in mask THEN <<a[i]>> ELSE <<>>) \o Masked(a, mask, i + 1)

\* str.lower() on the strings the model uses
Lower(s) ==
    CASE s = "POW" -> "pow"
      [] s = "GLM" -> "glm"
      [] s = "OLS" -> "ols"
      [] OTHER -> s

-----------------------------------------------------------------------------
(* Function objects and cost_func *)

NpLog == [type |-> "ufunc", name |-> "np.log"]
LambdaId == [type |-> "function", name |-> "lambda x: x*1.0"]
UserFn == [type |-> "function", name |-> "user"]

Str(s) == [type |-> "str", name |-> s]

\* calling a function object on a column
ApplyCf(cf, v) ==
    CASE cf = NpLog -> np_log(v)
      [] cf = LambdaId -> [i \in 1..Len(v) |-> v[i] * Scale]
      [] OTHER -> [i \in 1..Len(v) |-> v[i] * v[i] * Scale]

\* lines 108-117: resolve cost_func into self.cf
ResolveCostFunc(cost_func) ==
    IF cost_func.type = "str"
    THEN IF Lower(cost_func.name) = "pow" THEN [exc |-> "None", cf |-> <<NpLog>>]
         ELSE IF Lower(cost_func.name) = "exp" THEN [exc |-> "None", cf |-> <<LambdaId>>]
         ELSE [exc |-> "None", cf |-> <<>>]
    ELSE IF cost_func.type = "function" THEN [exc |-> "None", cf |-> <<cost_func>>]
    ELSE [exc |-> "ValueError", cf |-> <<>>]

-----------------------------------------------------------------------------
(* External collaborators *)

\* User.check_arrays: the common number of rows; fails on disagreeing or empty arrays
check_arrays(arrays) ==
    LET lens == {Len(arrays[k]) : k \in 1..Len(arrays)}
    IN  IF Cardinality(lens) = 1 /\ 0 \notin lens
        THEN [ok |-> TRUE, n |-> Len(arrays[1])]
        ELSE [ok |-> FALSE, n |-> 0]

\* User.check_y: y has n rows, none of them a negative count
check_y(y, n) == Len(y) = n /\ \A i \in 1..Len(y) : y[i] >= 0

\* sparse_categorical.spcategorical: one indicator column per distinct id, in sorted order
spcategorical(data) ==
    LET u == np_unique(data)
    IN  [k \in 1..Len(u) |-> [i \in 1..Len(data) |-> IF data[i] = u[k] THEN Scale ELSE 0]]

\* one statistic of a fit: which one, which coefficient, of which fit
Stat(name, k, fitin) == [stat |-> name, k |-> k, fit |-> fitin]

\* CountModel.fit: the results of fitting y ~ X; one coefficient per column of X,
\* one more for the intercept when constant is set
CountModel_fit(cm, Quasi) ==
    LET fitin == [y |-> cm.y, X |-> cm.X, constant |-> cm.constant, Quasi |-> Quasi]
        K == Len(cm.X) + (IF cm.constant THEN 1 ELSE 0)
    IN  [params |-> [k \in 1..K |-> Stat("param", k - 1, fitin)],
         std_err |-> [k \in 1..K |-> Stat("std_err", k - 1, fitin)],
         tvalues |-> [k \in 1..K |-> Stat("tvalue", k - 1, fitin)],
         pvalues |-> [k \in 1..K |-> Stat("pvalue", k - 1, fitin)],
         cov_params |-> Stat("cov_params", 0, fitin),
         yhat |-> Stat("yhat", 0, fitin),
         deviance |-> Stat("deviance", 0, fitin),
         llf |-> Stat("llf", 0, fitin),
         aic |-> Stat("aic", 0, fitin)]

FittedAttrs ==
    {"params", "yhat", "cov_params", "std_err", "pvalues", "tvalues",
     "deviance", "llf", "aic", "full_results"}

-----------------------------------------------------------------------------
(* Instances *)

\* an object before __init__ has set anything on it
NewInstance(cls) ==
    [cls |-> cls, exc |-> "None", n |-> 0,
     f |-> <<>>, c |-> <<>>, ov |-> <<>>, dv |-> <<>>, o |-> <<>>, d |-> <<>>,
     cf |-> <<>>, X |-> <<>>, cm |-> <<>>, fit |-> <<>>, results |-> <<>>,
     attrs |-> {}]

Raise(self, e) == [self EXCEPT !.exc = e]

\* keyword defaults shared by the four constructors
DefaultOpt ==
    [constant |-> FALSE, framework |-> "GLM", SF |-> FALSE, CD |-> FALSE,
     Lag |-> FALSE, Quasi |-> FALSE]

-----------------------------------------------------------------------------
(* BaseGravity.__init__ *)

\* Mutant: every class starts from the one-column sparse placeholder
EmptyXSparse(cls, n) == << [i \in 1..n |-> 0] >>

\* lines 120-123: the block X starts from
EmptyX(cls, n) ==
    IF cls = "Gravity" THEN <<>> ELSE << [i \in 1..n |-> 0] >>

\* Mutant: the combined dummy block of Doubly keeps its first column
DoublyDropKeep(cls, X) == X

\* lines 130-132: Doubly drops the first column of the combined block
DoublyDrop(cls, X) == IF cls = "Doubly" THEN Tail(X) ELSE X

\* lines 119-151: assemble X; exc is the exception raised on the way, X the block
\* built when it was raised
DesignMatrix(self, origins, destinations) ==
    LET cls == self.cls
        X0 == EmptyX(cls, self.n)
        X1 == IF cls \in {"Attraction", "Doubly"}
              THEN X0 \o spcategorical(destinations[1]) ELSE X0
        X2 == IF cls \in {"Production", "Doubly"}
              THEN X1 \o spcategorical(origins[1]) ELSE X1
        X3 == DoublyDrop(cls, X2)
        X4 == IF self.ov # <<>> THEN Append(X3, np_log(self.ov[1])) ELSE X3
        X5 == IF self.dv # <<>> THEN Append(X4, np_log(self.dv[1])) ELSE X4
    IN  IF self.cf = <<>> THEN [exc |-> "AttributeError", X |-> X5]
        ELSE LET X6 == Append(X5, ApplyCf(self.cf[1], self.c[1]))
             IN  [exc |-> "None", X |-> IF cls = "Gravity" THEN X6 ELSE Tail(X6)]

\* Mutant: the spatial-filter flag is silently ignored
ExtensionFlagsNoSF(opt) ==
    IF opt.CD THEN "NotImplementedError"
    ELSE IF opt.Lag THEN "NotImplementedError"
    ELSE "None"

\* lines 155-160: the extension points that are not implemented
ExtensionFlags(opt) ==
    IF opt.SF THEN "NotImplementedError"
    ELSE IF opt.CD THEN "NotImplementedError"
    ELSE IF opt.Lag THEN "NotImplementedError"
    ELSE "None"

\* lines 97-180.  a: the arguments; conv: whether the external fitter converges
BaseGravity_init(self, a, conv) ==
    LET chk == check_arrays(<<a.flows, a.cost>>) IN
    IF ~chk.ok \/ ~check_y(a.flows, chk.n) THEN Raise(self, "ValidationError") ELSE
    LET s1 == [self EXCEPT !.n = chk.n, !.f = <<a.flows>>, !.c = <<a.cost>>,
                           !.ov = a.o_vars, !.dv = a.d_vars]
        r == ResolveCostFunc(a.cost_func) IN
    IF r.exc # "None" THEN Raise(s1, r.exc) ELSE
    LET s2 == [s1 EXCEPT !.cf = r.cf]
        dm == DesignMatrix(s2, a.origins, a.destinations) IN
    IF dm.exc # "None" THEN Raise([s2 EXCEPT !.X = <<dm.X>>], dm.exc) ELSE
    LET s3 == [s2 EXCEPT !.X = <<dm.X>>]
        fl == ExtensionFlags(a.opt) IN
    IF fl # "None" THEN Raise(s3, fl) ELSE
    LET s4 == [s3 EXCEPT !.cm = <<[y |-> a.flows, X |-> dm.X,
                                   constant |-> a.opt.constant]>>] IN
    IF Lower(a.opt.framework) # "glm" THEN Raise(s4, "NotImplementedError") ELSE
    LET s5 == [s4 EXCEPT !.fit = <<[Quasi |-> a.opt.Quasi]>>] IN
    IF ~conv THEN Raise(s5, "FitError") ELSE
    [s5 EXCEPT !.results = <<CountModel_fit(s4.cm[1], a.opt.Quasi)>>,
               !.attrs = FittedAttrs]

-----------------------------------------------------------------------------
(* The four variants *)

\* lines 255-266
Gravity_init(flows, o_vars, d_vars, cost, cost_func, opt, conv) ==
    LET self == [NewInstance("Gravity") EXCEPT !.f = <<flows>>, !.ov = <<o_vars>>,
                                               !.dv = <<d_vars>>, !.c = <<cost>>]
    IN  IF ~check_arrays(<<flows, o_vars, d_vars, cost>>).ok
        THEN Raise(self, "ValidationError")
        ELSE BaseGravity_init(self,
                 [flows |-> flows, cost |-> cost, cost_func |-> cost_func,
                  o_vars |-> <<o_vars>>, d_vars |-> <<d_vars>>,
                  origins |-> <<>>, destinations |-> <<>>, opt |-> opt], conv)

\* lines 357-368; the second positional argument of BaseGravity.__init__ is self.f
Production_init(flows, origins, d_vars, cost, cost_func, opt, conv) ==
    LET self == [NewInstance("Production") EXCEPT !.f = <<flows>>, !.o = <<origins>>,
                                                  !.dv = <<d_vars>>, !.c = <<cost>>]
    IN  IF ~check_arrays(<<flows, origins, d_vars, cost>>).ok
        THEN Raise(self, "ValidationError")
        ELSE BaseGravity_init(self,
                 [flows |-> flows, cost |-> flows, cost_func |-> cost_func,
                  o_vars |-> <<>>, d_vars |-> <<d_vars>>,
                  origins |-> <<origins>>, destinations |-> <<>>, opt |-> opt], conv)

\* lines 461-472
Attraction_init(flows, destinations, o_vars, cost, cost_func, opt, conv) ==
    LET self == [NewInstance("Attraction") EXCEPT !.f = <<flows>>, !.ov = <<o_vars>>,
                                                  !.d = <<destinations>>, !.c = <<cost>>]
    IN  IF ~check_arrays(<<flows, destinations, o_vars, cost>>).ok
        THEN Raise(self, "ValidationError")
        ELSE BaseGravity_init(self,
                 [flows |-> flows, cost |-> cost, cost_func |-> cost_func,
                  o_vars |-> <<o_vars>>, d_vars |-> <<>>,
                  origins |-> <<>>, destinations |-> <<destinations>>, opt |-> opt], conv)

\* lines 562-574
Doubly_init(flows, origins, destinations, cost, cost_func, opt, conv) ==
    LET self == [NewInstance("Doubly") EXCEPT !.f = <<flows>>, !.o = <<origins>>,
                                              !.d = <<destinations>>, !.c = <<cost>>]
    IN  IF ~check_arrays(<<flows, origins, destinations, cost>>).ok
        THEN Raise(self, "ValidationError")
        ELSE BaseGravity_init(self,
                 [flows |-> flows, cost |-> cost, cost_func |-> cost_func,
                  o_vars |-> <<>>, d_vars |-> <<>>,
                  origins |-> <<origins>>, destinations |-> <<destinations>>,
                  opt |-> opt], conv)

-----------------------------------------------------------------------------
(* local(): one refit per location key *)

\* the names of the series of a result mapping: 'aic', 'deviance', and
\* 'param'/'pvalue'/'tvalue' + str(cov) for cov in range(covs)
ResultNames(covs) ==
    {<<"aic", 0>>, <<"deviance", 0>>}
        \cup {<<s, k>> : s \in {"param", "pvalue", "tvalue"}, k \in 0..(covs - 1)}

\* lines 375-382: the empty series
EmptyResults(covs) == [nm \in ResultNames(covs) |-> <<>>]

\* lines 392-397: append the statistics of one refit model to every series
Collect(results, m, covs) ==
    LET r == m.results[1]
    IN  [nm \in DOMAIN results |->
            Append(results[nm],
                   CASE nm[1] = "aic" -> r.aic
                     [] nm[1] = "deviance" -> r.deviance
                     [] nm[1] = "param" -> r.params[nm[2] + 1]
                     [] nm[1] = "pvalue" -> r.pvalues[nm[2] + 1]
                     [] OTHER -> r.tvalues[nm[2] + 1])]

\* the rows selected by 'index == loc'
Subset(index, loc) == {j \in 1..Len(index) : index[j] = loc}

\* the outcome of a local() call: the exception it raised, the mapping it
\* returned, the child models it constructed (in order), and self afterwards
Outcome(exc, ret, children, self) ==
    [exc |-> exc, ret |-> ret, children |-> children, self |-> self]

\* how a loop ends once a child model is built: propagate its exception, or
\* an IndexError when it has fewer coefficients than series to fill
ChildExc(m, covs) ==
    IF m.exc # "None" THEN m.exc
    ELSE IF covs > Len(m.results[1].params) THEN "IndexError"
    ELSE "None"

\* lines 282-287: the model refit on the rows of one location
Gravity_child(self, subset, conv) ==
    Gravity_init(Masked(self.f[1], subset, 1), Masked(self.ov[1], subset, 1),
                 Masked(self.dv[1], subset, 1), Masked(self.c[1], subset, 1),
                 self.cf[1], DefaultOpt, conv)

RECURSIVE Gravity_loop(_, _, _, _, _, _, _, _)
RECURSIVE Gravity_collect(_, _, _, _, _, _, _, _, _)
\* lines 288-293: collect the statistics of child m, then go on with the next key
Gravity_collect(self, loc_index, keys, i, covs, results, children, failAt, m) ==
    IF ChildExc(m, covs) # "None"
    THEN Outcome(ChildExc(m, covs), <<>>, Append(children, m), self)
    ELSE Gravity_loop(self, loc_index, keys, i + 1, covs, Collect(results, m, covs),
                      Append(children, m), failAt)

\* lines 281-293; failAt: the child (by position) whose fit does not converge
Gravity_loop(self, loc_index, keys, i, covs, results, children, failAt) ==
    IF i > Len(keys) THEN Outcome("None", <<results>>, children, self)
    ELSE Gravity_collect(self, loc_index, keys, i, covs, results, children, failAt,
                         Gravity_child(self, Subset(loc_index, keys[i]), failAt # i))

\* lines 268-294
Gravity_local(self, loc_index, locs, failAt) ==
    Gravity_loop(self, loc_index, np_unique(locs.keys), 1, 1 + 1 + 1,
                 EmptyResults(1 + 1 + 1), <<>>, failAt)

\* 'not locs' for None, a list or an array; "ValueError" when numpy refuses to
\* give an array of several elements a truth value
NotLocs(locs) ==
    CASE locs.kind = "None" -> "True"
      [] locs.kind = "list" -> IF Len(locs.keys) = 0 THEN "True" ELSE "False"
      [] OTHER -> IF Len(locs.keys) = 0 THEN "True"
                  ELSE IF Len(locs.keys) = 1 THEN "False"
                  ELSE "ValueError"

\* lines 386-391
Production_child(self, subset, conv) ==
    Production_init(Masked(self.f[1], subset, 1), Masked(self.o[1], subset, 1),
                    Masked(self.dv[1], subset, 1), Masked(self.c[1], subset, 1),
                    self.cf[1], DefaultOpt, conv)

RECURSIVE Production_loop(_, _, _, _, _, _, _)
RECURSIVE Production_collect(_, _, _, _, _, _, _, _)
\* lines 392-397
Production_collect(self, keys, i, covs, results, children, failAt, m) ==
    IF ChildExc(m, covs) # "None"
    THEN Outcome(ChildExc(m, covs), <<>>, Append(children, m), self)
    ELSE Production_loop(self, keys, i + 1, covs, Collect(results, m, covs),
                         Append(children, m), failAt)

\* lines 385-397
Production_loop(self, keys, i, covs, results, children, failAt) ==
    IF i > Len(keys) THEN Outcome("None", <<results>>, children, self)
    ELSE Production_collect(self, keys, i, covs, results, children, failAt,
                            Production_child(self, Subset(self.o[1], keys[i]), failAt # i))

\* lines 370-398
Production_local(self, locs, failAt) ==
    IF NotLocs(locs) = "ValueError" THEN Outcome("ValueError", <<>>, <<>>, self)
    ELSE Production_loop(self,
             np_unique(IF NotLocs(locs) = "True" THEN np_unique(self.o[1]) ELSE locs.keys),
             1, 1 + 1, EmptyResults(1 + 1), <<>>, failAt)

\* lines 490-495
Attraction_child(self, subset, conv) ==
    Attraction_init(Masked(self.f[1], subset, 1), Masked(self.d[1], subset, 1),
                    Masked(self.ov[1], subset, 1), Masked(self.c[1], subset, 1),
                    self.cf[1], DefaultOpt, conv)

RECURSIVE Attraction_loop(_, _, _, _, _, _, _)
RECURSIVE Attraction_collect(_, _, _, _, _, _, _, _)
\* lines 496-501
Attraction_collect(self, keys, i, covs, results, children, failAt, m) ==
    IF ChildExc(m, covs) # "None"
    THEN Outcome(ChildExc(m, covs), <<>>, Append(children, m), self)
    ELSE Attraction_loop(self, keys, i + 1, covs, Collect(results, m, covs),
                         Append(children, m), failAt)

\* lines 489-501
Attraction_loop(self, keys, i, covs, results, children, failAt) ==
    IF i > Len(keys) THEN Outcome("None", <<results>>, children, self)
    ELSE Attraction_collect(self, keys, i, covs, results, children, failAt,
                            Attraction_child(self, Subset(self.d[1], keys[i]), failAt # i))

\* lines 474-502
Attraction_local(self, locs, failAt) ==
    IF NotLocs(locs) = "ValueError" THEN Outcome("ValueError", <<>>, <<>>, self)
    ELSE Attraction_loop(self,
             np_unique(IF NotLocs(locs) = "True" THEN np_unique(self.d[1]) ELSE locs.keys),
             1, 1 + 1, EmptyResults(1 + 1), <<>>, failAt)

\* Mutant: Doubly.local answers with an empty result mapping
Doubly_local_empty(self, locs, origins) ==
    Outcome("None", <<EmptyResults(1)>>, <<>>, self)

\* lines 576-582
Doubly_local(self, locs, origins) ==
    Outcome("NotImplementedError", <<>>, <<>>, self)

-----------------------------------------------------------------------------
(* Inputs *)

\* numeric columns of n rows: the first row holds one value, the others another
Vecs(n, S) == {[i \in 1..n |-> IF i = 1 THEN a ELSE b] : a, b \in S}

\* identifier columns of n rows
IdVecs(n) == [1..n -> Ids]

\* cost_func as callers pass it: accepted strings (any case), another string,
\* a python function, and an object that is neither
CostFuncs == <<[type |-> "int", name |-> "3"], Str("exp"), Str("pow"), Str("POW"),
               UserFn, Str("linear")>>

\* keyword arguments: the defaults, or the defaults with one of them changed
Opts ==
    {DefaultOpt,
     [DefaultOpt EXCEPT !.constant = TRUE],
     [DefaultOpt EXCEPT !.Quasi = TRUE],
     [DefaultOpt EXCEPT !.framework = "glm"],
     [DefaultOpt EXCEPT !.framework = "OLS"],
     [DefaultOpt EXCEPT !.SF = TRUE],
     [DefaultOpt EXCEPT !.CD = TRUE],
     [DefaultOpt EXCEPT !.Lag = TRUE],
     [DefaultOpt EXCEPT !.constant = TRUE, !.Quasi = TRUE],
     [DefaultOpt EXCEPT !.SF = TRUE, !.framework = "OLS"]}

NoModel == NewInstance("None")

NoCall ==
    [cls |-> "None", flows |-> <<>>, cost |-> <<>>, cost_func |-> Str("pow"),
     o_vars |-> <<>>, d_vars |-> <<>>, origins |-> <<>>, destinations |-> <<>>,
     opt |-> DefaultOpt, conv |-> TRUE]

NoLocs == [kind |-> "None", keys |-> <<>>]

\* no local() call made yet
NoLocal ==
    [op |-> "None", locs |-> NoLocs, loc_index |-> <<>>, origins |-> TRUE,
     failAt |-> 0, exc |-> "None", ret |-> <<>>, children |-> <<>>]

-----------------------------------------------------------------------------
(* Construction: one call of a constructor on fresh arguments *)

Init == model = NoModel /\ call = NoCall /\ localRes = NoLocal

GravityNew ==
    /\ model = NoModel
    /\ \E n \in 1..MaxN, ck \in 1..Len(CostFuncs), opt \in Opts, fails \in BOOLEAN :
       \E flows \in Vecs(n, FlowVals), o_vars \in Vecs(n, CovVals),
          d_vars \in Vecs(n, CovVals), cost \in Vecs(n, CostVals) :
          LET cost_func == CostFuncs[ck]
              conv == ~fails IN
          /\ model' = Gravity_init(flows, o_vars, d_vars, cost, cost_func, opt, conv)
          /\ call' = [NoCall EXCEPT !.cls = "Gravity", !.flows = flows, !.cost = cost,
                          !.cost_func = cost_func, !.o_vars = <<o_vars>>,
                          !.d_vars = <<d_vars>>, !.opt = opt, !.conv = conv]
    /\ UNCHANGED localRes

ProductionNew ==
    /\ model = NoModel
    /\ \E n \in 1..MaxN, ck \in 1..Len(CostFuncs), opt \in Opts, fails \in BOOLEAN :
       \E flows \in Vecs(n, FlowVals), origins \in IdVecs(n),
          d_vars \in Vecs(n, CovVals), cost \in Vecs(n, CostVals) :
          LET cost_func == CostFuncs[ck]
              conv == ~fails IN
          /\ model' = Production_init(flows, origins, d_vars, cost, cost_func, opt, conv)
          /\ call' = [NoCall EXCEPT !.cls = "Production", !.flows = flows, !.cost = cost,
                          !.cost_func = cost_func, !.origins = <<origins>>,
                          !.d_vars = <<d_vars>>, !.opt = opt, !.conv = conv]
    /\ UNCHANGED localRes

AttractionNew ==
    /\ model = NoModel
    /\ \E n \in 1..MaxN, ck \in 1..Len(CostFuncs), opt \in Opts, fails \in BOOLEAN :
       \E flows \in Vecs(n, FlowVals), destinations \in IdVecs(n),
          o_vars \in Vecs(n, CovVals), cost \in Vecs(n, CostVals) :
          LET cost_func == CostFuncs[ck]
              conv == ~fails IN
          /\ model' = Attraction_init(flows, destinations, o_vars, cost, cost_func,
                                      opt, conv)
          /\ call' = [NoCall EXCEPT !.cls = "Attraction", !.flows = flows, !.cost = cost,
                          !.cost_func = cost_func, !.destinations = <<destinations>>,
                          !.o_vars = <<o_vars>>, !.opt = opt, !.conv = conv]
    /\ UNCHANGED localRes

DoublyNew ==
    /\ model = NoModel
    /\ \E n \in 1..MaxN, ck \in 1..Len(CostFuncs), opt \in Opts, fails \in BOOLEAN :
       \E flows \in Vecs(n, FlowVals), origins \in IdVecs(n),
          destinations \in IdVecs(n), cost \in Vecs(n, CostVals) :
          LET cost_func == CostFuncs[ck]
              conv == ~fails IN
          /\ model' = Doubly_init(flows, origins, destinations, cost, cost_func,
                                  opt, conv)
          /\ call' = [NoCall EXCEPT !.cls = "Doubly", !.flows = flows, !.cost = cost,
                          !.cost_func = cost_func, !.origins = <<origins>>,
                          !.destinations = <<destinations>>, !.opt = opt, !.conv = conv]
    /\ UNCHANGED localRes

Next == GravityNew \/ ProductionNew \/ AttractionNew \/ DoublyNew

Spec == Init /\ [][Next]_vars

-----------------------------------------------------------------------------
(* Properties of construction *)

\* the values of an optional column, as a set
ValuesOf(optcol) == IF optcol = <<>> THEN {} ELSE {optcol[1][i] : i \in 1..Len(optcol[1])}

\* distinct identifiers, summed over the fixed-effect blocks the class includes
NIds(cl) ==
    (IF cl.cls \in {"Production", "Doubly"} THEN Cardinality(ValuesOf(cl.origins)) ELSE 0)
    + (IF cl.cls \in {"Attraction", "Doubly"}
       THEN Cardinality(ValuesOf(cl.destinations)) ELSE 0)

\* covariate columns supplied
NCov(cl) == Len(cl.o_vars) + Len(cl.d_vars)

\* X was handed to the fitter's constructor (CountModel.__init__, line 162)
Handed == model.cm # <<>>

FixedEffects == {"Production", "Attraction", "Doubly"}

\* cost_func is one of the accepted forms: "pow"/"exp" in any case, or a function
Accepted(cost_func) ==
    \/ cost_func.type = "function"
    \/ cost_func.type = "str" /\ Lower(cost_func.name) \in {"pow", "exp"}

C1_WitnessDoubly ==
    /\ Handed /\ model.cls = "Doubly"
    /\ NIds(call) = 4
    /\ Len(model.cm[1].X) = 4

C3_CostColumn ==
    Handed => model.cm[1].X[Len(model.cm[1].X)] = ApplyCf(model.cf[1], call.cost)

\* C4: a cost_func that is no accepted form fails with ValueError at resolution,
\* before any design matrix is built or fit attempted
C4_InvalidCostFunc ==
    (call.cls # "None" /\ ~Accepted(call.cost_func))
        => /\ model.exc = "ValueError"
           /\ model.X = <<>>
           /\ model.fit = <<>>

Unimplemented(opt) == opt.SF \/ opt.CD \/ opt.Lag \/ Lower(opt.framework) # "glm"

\* C9 as claimed: an unimplemented flag or framework fails with
\* NotImplementedError before fit, no fitted field set
C9_Claimed ==
    (call.cls # "None" /\ Unimplemented(call.opt))
        => /\ model.exc = "NotImplementedError"
           /\ model.fit = <<>>
           /\ model.attrs \cap FittedAttrs = {}

\* C9 amended: such a construction always fails before fit is invoked and sets
\* no fitted field; the error is NotImplementedError whenever cost_func is an
\* accepted form (otherwise the cost-transform step fails first)
C9_FailsBeforeFit ==
    (call.cls # "None" /\ Unimplemented(call.opt))
        => /\ model.exc # "None"
           /\ model.fit = <<>>
           /\ model.results = <<>>
           /\ model.attrs \cap FittedAttrs = {}
           /\ Accepted(call.cost_func) => model.exc = "NotImplementedError"

C9_Witness ==
    /\ call.cls = "Attraction" /\ call.opt.Lag /\ Accepted(call.cost_func)
    /\ model.exc = "NotImplementedError"
    /\ model.X # <<>> /\ model.fit = <<>>

\* C10: a zero or negative covariate value fails with ValidationError before
\* its log enters the design matrix and before any fit
C10_CovariateDomain ==
    (call.cls # "None"
       /\ \E v \in ValuesOf(call.o_vars) \cup ValuesOf(call.d_vars) : v <= 0)
        => /\ model.exc = "ValidationError"
           /\ model.X = <<>>
           /\ model.fit = <<>>
           /\ model.attrs \cap FittedAttrs = {}

-----------------------------------------------------------------------------
(* Local calibration: one local() call on a model that was built *)

\* largest number of observations of a dataset local() is called on
MaxLocalN == 4

\* flows and cost of the datasets local() is called on: every row differs
Ramp(n) == [i \in 1..n |-> i]
RampDown(n) == [i \in 1..n |-> n + 1 - i]
Twos(n) == [i \in 1..n |-> 2]

\* the locs argument: None, a list of keys, or an array of keys
KeySeqs == UNION {[1..k -> Ids] : k \in 0..MaxLocs}
LocsArgs == {NoLocs} \cup [kind : {"list", "array"}, keys : KeySeqs]

LocalOpts ==
    {DefaultOpt,
     [DefaultOpt EXCEPT !.constant = TRUE],
     [DefaultOpt EXCEPT !.Quasi = TRUE],
     [DefaultOpt EXCEPT !.constant = TRUE, !.Quasi = TRUE]}

\* the instances local() can be called on: the ones a constructor returned
GravityBuilt ==
    \E n \in 1..MaxLocalN, ck \in 1..Len(CostFuncs), opt \in LocalOpts :
       /\ model = Gravity_init(Ramp(n), Twos(n), Twos(n), RampDown(n),
                               CostFuncs[ck], opt, TRUE)
       /\ call = [NoCall EXCEPT !.cls = "Gravity", !.flows = Ramp(n),
                      !.cost = RampDown(n), !.cost_func = CostFuncs[ck],
                      !.o_vars = <<Twos(n)>>, !.d_vars = <<Twos(n)>>, !.opt = opt]

ProductionBuilt ==
    \E n \in 1..MaxLocalN, ck \in 1..Len(CostFuncs), opt \in LocalOpts :
       \E origins \in IdVecs(n) :
          /\ model = Production_init(Ramp(n), origins, Twos(n), RampDown(n),
                                     CostFuncs[ck], opt, TRUE)
          /\ call = [NoCall EXCEPT !.cls = "Production", !.flows = Ramp(n),
                         !.cost = RampDown(n), !.cost_func = CostFuncs[ck],
                         !.origins = <<origins>>, !.d_vars = <<Twos(n)>>, !.opt = opt]

AttractionBuilt ==
    \E n \in 1..MaxLocalN, ck \in 1..Len(CostFuncs), opt \in LocalOpts :
       \E destinations \in IdVecs(n) :
          /\ model = Attraction_init(Ramp(n), destinations, Twos(n), RampDown(n),
                                     CostFuncs[ck], opt, TRUE)
          /\ call = [NoCall EXCEPT !.cls = "Attraction", !.flows = Ramp(n),
                         !.cost = RampDown(n), !.cost_func = CostFuncs[ck],
                         !.destinations = <<destinations>>, !.o_vars = <<Twos(n)>>,
                         !.opt = opt]

DoublyBuilt ==
    \E n \in 1..MaxLocalN, ck \in 1..Len(CostFuncs), opt \in LocalOpts :
       \E origins \in IdVecs(n), destinations \in IdVecs(n) :
          /\ model = Doubly_init(Ramp(n), origins, destinations, RampDown(n),
                                 CostFuncs[ck], opt, TRUE)
          /\ call = [NoCall EXCEPT !.cls = "Doubly", !.flows = Ramp(n),
                         !.cost = RampDown(n), !.cost_func = CostFuncs[ck],
                         !.origins = <<origins>>, !.destinations = <<destinations>>,
                         !.opt = opt]

InitLocal ==
    /\ localRes = NoLocal
    /\ GravityBuilt \/ ProductionBuilt \/ AttractionBuilt \/ DoublyBuilt
    /\ model.exc = "None"

\* a local() call with outcome out: what it leaves behind
Called(op, locs, loc_index, origins, failAt, out) ==
    /\ localRes' = [op |-> op, locs |-> locs, loc_index |-> loc_index,
                    origins |-> origins, failAt |-> failAt, exc |-> out.exc,
                    ret |-> out.ret, children |-> out.children]
    /\ model' = out.self
    /\ UNCHANGED call

GravityLocal ==
    /\ model.cls = "Gravity" /\ model.exc = "None" /\ localRes = NoLocal
    /\ \E loc_index \in IdVecs(model.n), locs \in LocsArgs \ {NoLocs},
          failAt \in 0..MaxLocs :
          Called("Gravity.local", locs, loc_index, TRUE, failAt,
                 Gravity_local(model, loc_index, locs, failAt))

ProductionLocal ==
    /\ model.cls = "Production" /\ model.exc = "None" /\ localRes = NoLocal
    /\ \E locs \in LocsArgs, failAt \in 0..MaxLocs :
          Called("Production.local", locs, <<>>, TRUE, failAt,
                 Production_local(model, locs, failAt))

AttractionLocal ==
    /\ model.cls = "Attraction" /\ model.exc = "None" /\ localRes = NoLocal
    /\ \E locs \in LocsArgs, failAt \in 0..MaxLocs :
          Called("Attraction.local", locs, <<>>, TRUE, failAt,
                 Attraction_local(model, locs, failAt))

DoublyLocal ==
    /\ model.cls = "Doubly" /\ model.exc = "None" /\ localRes = NoLocal
    /\ \E locs \in LocsArgs, origins \in BOOLEAN :
          Called("Doubly.local", locs, <<>>, origins, 0,
                 Doubly_local(model, locs, origins))

NextLocal == GravityLocal \/ ProductionLocal \/ AttractionLocal \/ DoublyLocal

SpecLocal == InitLocal /\ [][NextLocal]_vars

-----------------------------------------------------------------------------
(* Properties of local() *)

LocalOps == {"Gravity.local", "Production.local", "Attraction.local"}

\* the identifier column local() partitions the observations by
AnchorIds ==
    CASE localRes.op = "Gravity.local" -> localRes.loc_index
      [] localRes.op = "Production.local" -> model.o[1]
      [] localRes.op = "Attraction.local" -> model.d[1]
      [] OTHER -> <<>>

\* the distinct keys a call was asked to process: those of locs, or, for
\* Production and Attraction called without any, those of the model itself
KeysAsked ==
    IF localRes.op # "Gravity.local"
         /\ (localRes.locs.kind = "None" \/ Len(localRes.locs.keys) = 0)
    THEN {AnchorIds[j] : j \in 1..Len(AnchorIds)}
    ELSE {localRes.locs.keys[j] : j \in 1..Len(localRes.locs.keys)}

\* the i-th smallest key of K
Rank(K, i) == CHOOSE k \in K : Cardinality({x \in K : x < k}) = i - 1

\* C5: every child that reaches the cost-transform step accepts the parent's
\* resolved transform and holds the very same function
C5_SameTransform ==
    localRes.op \in LocalOps
        => \A k \in 1..Len(localRes.children) :
              localRes.children[k].n > 0
                 => /\ localRes.children[k].exc # "ValueError"
                    /\ localRes.children[k].cf = model.cf

\* C6: local() on a Doubly model raises NotImplementedError whatever its
\* arguments, builds no child, returns nothing and leaves the model as it was
C6_DoublyLocalFails ==
    [][(model.cls = "Doubly" /\ localRes' # localRes)
          => /\ localRes'.op = "Doubly.local"
             /\ localRes'.exc = "NotImplementedError"
             /\ localRes'.ret = <<>>
             /\ localRes'.children = <<>>
             /\ model' = model]_vars

C6_Witness ==
    /\ localRes.op = "Doubly.local"
    /\ localRes.locs.kind = "list" /\ Len(localRes.locs.keys) = 2
    /\ ~localRes.origins
    /\ localRes.exc = "NotImplementedError"

\* C7: when local() returns, every series has one entry per distinct key
\* asked for, and entry i was collected from the model refit on the rows of
\* the i-th key in ascending order
C7_AlignedSeries ==
    (localRes.op \in LocalOps /\ localRes.exc = "None")
        => /\ localRes.ret # <<>>
           /\ \A nm \in DOMAIN localRes.ret[1] :
                 /\ Len(localRes.ret[1][nm]) = Cardinality(KeysAsked)
                 /\ \A i \in 1..Cardinality(KeysAsked) :
                       /\ localRes.ret[1][nm][i].fit.y
                             = Masked(model.f[1], Subset(AnchorIds, Rank(KeysAsked, i)), 1)
                       /\ nm[1] \in {"aic", "deviance"}
                             => localRes.ret[1][nm][i].stat = nm[1]
                       /\ nm[1] \in {"param", "pvalue", "tvalue"}
                             => /\ localRes.ret[1][nm][i].stat = nm[1]
                                /\ localRes.ret[1][nm][i].k = nm[2]

C7_Witness ==
    /\ localRes.op = "Production.local" /\ localRes.exc = "None"
    /\ localRes.locs = [kind |-> "list", keys |-> <<2, 1>>]
    /\ Len(localRes.ret[1][<<"aic", 0>>]) = 2
    /\ localRes.ret[1][<<"aic", 0>>][1].fit.y # localRes.ret[1][<<"aic", 0>>][2].fit.y

\* C8: a partition with fewer observations than coefficients makes the whole
\* local() call fail
C8_DegeneratePartitionFails ==
    (localRes.op \in LocalOps
       /\ \E k \in 1..Len(localRes.children) :
             /\ localRes.children[k].cm # <<>>
             /\ localRes.children[k].n < Len(localRes.children[k].cm[1].X))
        => localRes.exc # "None"

\* the identifier column of a child model, as a set of keys
ChildKeys(m) ==
    {m.o[1][j] : j \in 1..(IF m.o = <<>> THEN 0 ELSE Len(m.o[1]))}
        \cup {m.d[1][j] : j \in 1..(IF m.d = <<>> THEN 0 ELSE Len(m.d[1]))}

\* no child model of the call raised: the loop was not cut short by a refit
NoChildRaised == \A k \in 1..Len(localRes.children) : localRes.children[k].exc = "None"

\* the i-th child was refit on the rows of the i-th smallest key asked for
ProcessesKeysAsked ==
    /\ Len(localRes.children) = Cardinality(KeysAsked)
    /\ \A i \in 1..Len(localRes.children) :
          ChildKeys(localRes.children[i]) = {Rank(KeysAsked, i)}

\* C11: Production.local and Attraction.local process exactly the distinct keys
\* of the model's own identifier column when no subset is given, and exactly
\* the distinct keys of an explicit non-empty subset, list or array, otherwise
\* (as far as no refit fails on the way)
C11_KeysProcessed ==
    (localRes.op \in {"Production.local", "Attraction.local"} /\ NoChildRaised)
        => ProcessesKeysAsked

\* C11 without arrays of several keys: the part of the claim the code keeps
C11_DefaultOrList ==
    (localRes.op \in {"Production.local", "Attraction.local"} /\ NoChildRaised
       /\ (localRes.locs.kind = "array" => Len(localRes.locs.keys) <= 1))
        => ProcessesKeysAsked

C11_WitnessDefault ==
    /\ localRes.op = "Attraction.local" /\ localRes.locs = NoLocs
    /\ localRes.exc = "None" /\ Len(localRes.children) = 2

C11_WitnessArray ==
    /\ localRes.op = "Production.local" /\ localRes.locs.kind = "array"
    /\ Len(localRes.locs.keys) = 2 /\ localRes.exc = "ValueError"
    /\ localRes.children = <<>>

\* the whole dataset is one partition and local() was run over all its keys
SinglePartition ==
    /\ localRes.op \in LocalOps
    /\ Cardinality({AnchorIds[j] : j \in 1..Len(AnchorIds)}) = 1
    /\ KeysAsked = {AnchorIds[j] : j \in 1..Len(AnchorIds)}

\* the one child was fit on the parent's fit inputs, and every collected
\* param is the parent's param at the same position
RoundTrip ==
    /\ Len(localRes.children) = 1
    /\ localRes.children[1].cm = model.cm
    /\ localRes.children[1].fit = model.fit
    /\ \A nm \in DOMAIN localRes.ret[1] :
          nm[1] = "param"
             => /\ nm[2] + 1 <= Len(model.results[1].params)
                /\ localRes.ret[1][nm] = <<model.results[1].params[nm[2] + 1]>>

\* C12: on a single-partition dataset, local() over all unique keys that
\* returns has refit its child on the parent's own fit inputs (y, X, constant,
\* fitting options) and collected the parent's own params, whatever options
\* the parent was built with
C12_RoundTrip ==
    (SinglePartition /\ localRes.exc = "None") => RoundTrip

\* C12 for parents built with the default constant and Quasi: the part of the
\* claim the code keeps
C12_DefaultOptions ==
    (SinglePartition /\ localRes.exc = "None"
       /\ ~call.opt.constant /\ ~call.opt.Quasi) => RoundTrip

C12_WitnessDefault ==
    /\ SinglePartition /\ localRes.exc = "None"
    /\ localRes.op = "Production.local" /\ model.n = 3
    /\ call.opt = DefaultOpt /\ RoundTrip

C12_WitnessConstant ==
    /\ SinglePartition /\ localRes.exc = "None"
    /\ call.opt.constant /\ ~call.opt.Quasi
    /\ localRes.children[1].cm[1].X = model.cm[1].X
    /\ ~localRes.children[1].cm[1].constant

C12_WitnessQuasi ==
    /\ SinglePartition /\ localRes.exc = "None"
    /\ call.opt.Quasi /\ ~call.opt.constant
    /\ localRes.children[1].cm = model.cm
    /\ localRes.children[1].fit # model.fit

\* the indices K for which the returned mapping holds a series named stat + K
SeriesOf(stat) == {nm[2] : nm \in {x \in DOMAIN localRes.ret[1] : x[1] = stat}}

\* the coefficient indices of a fitted child: one per column of its design matrix
Coefficients(m) == 0..(Len(m.cm[1].X) - 1)

\* C13: when local() of Gravity, Production or Attraction returns, the
\* param/pvalue/tvalue series are exactly one per coefficient (design-matrix
\* column) of every refit child, the cost coefficient in the last column
\* included, and entry K of a child is its statistic for column K
C13_SeriesPerCoefficient ==
    (localRes.op \in LocalOps /\ localRes.exc = "None")
        => \A i \in 1..Len(localRes.children) :
              \A stat \in {"param", "pvalue", "tvalue"} :
                 /\ SeriesOf(stat) = Coefficients(localRes.children[i])
                 /\ \A K \in SeriesOf(stat) : localRes.ret[1][<<stat, K>>][i].k = K

\* C13 for Gravity alone: the part of the claim the code keeps
C13_Gravity ==
    (localRes.op = "Gravity.local" /\ localRes.exc = "None")
        => \A i \in 1..Len(localRes.children) :
              \A stat \in {"param", "pvalue", "tvalue"} :
                 /\ SeriesOf(stat) = Coefficients(localRes.children[i])
                 /\ \A K \in SeriesOf(stat) : localRes.ret[1][<<stat, K>>][i].k = K

\* what Production.local and Attraction.local collect instead: the first two
\* coefficients of a child of three, never the cost coefficient
C13_CostNotCollected ==
    (localRes.op \in {"Production.local", "Attraction.local"} /\ localRes.exc = "None")
        => \A i \in 1..Len(localRes.children) :
              /\ Len(localRes.children[i].results[1].params) = 1 + 1 + 1
              /\ SeriesOf("param") = 0..1
              /\ (Len(localRes.children[i].cm[1].X) - 1) \notin SeriesOf("param")

C13_WitnessGravity ==
    /\ localRes.op = "Gravity.local" /\ localRes.exc = "None"
    /\ Len(localRes.children) = 2
    /\ SeriesOf("param") = 0..2

C13_WitnessProduction ==
    /\ localRes.op = "Production.local" /\ localRes.exc = "None"
    /\ Len(localRes.children) = 2
    /\ SeriesOf("param") = 0..1
    /\ Len(localRes.children[1].results[1].params) = 3

====
